---- MODULE Spec2Model ----
(***************************************************************************)
(* Model of the two request handlers of the repository:                    *)
(*   lambda.py  handler(event, context)  - the dynamic invocation handler  *)
(*   ec2.py     root()                   - the static Flask handler        *)
(*                                                                         *)
(* Python values are tagged records; dictionaries are total functions over *)
(* a finite key universe whose missing keys map to Absent; mutable         *)
(* dictionaries that the handler creates live in a heap of objects, so     *)
(* that aliasing between responses is visible.                             *)
(***************************************************************************)
EXTENDS Integers, Sequences, FiniteSets, TLC

\* ------------------------------------------------------------------ bounds
\* sequential invocations of handler / requests to root that a run makes
MaxCalls == 2
\* invocations in flight at once in the interleaved specification
NProc == 2

\* ------------------------------------------------------------ Python values
\* a leaf value: t is the type tag, v the text of a str
Str(s) == [t |-> "str", v |-> s]
None == [t |-> "none", v |-> ""]
\* marker of a key that a dict does not hold (not a Python value)
Absent == [t |-> "absent", v |-> ""]

\* keys a query-parameter mapping may hold
QKeys == {"connection", "keep-alive", "other"}
\* values of the two keys the handler reads
QValues == {Absent, Str("true"), Str("false"), Str(""), Str("TRUE"), None}
\* the mapping with no key
NoEntries == [k \in QKeys |-> Absent]
QMaps ==
  {m \in [QKeys -> QValues \cup {Str("x")}] :
      m["other"] \in {Absent, Str("x")}}

\* an object that the event may hold under a key: t is the type tag, m the
\* entries when the object is a dict
Obj(t, m) == [t |-> t, m |-> m]
\* the literal {} of lambda.py line 2 and line 4
EmptyDict == Obj("dict", NoEntries)
NoneObj == Obj("none", NoEntries)
AbsentObj == Obj("absent", NoEntries)
\* objects that are neither a mapping nor null (a str, a list)
StrObj == Obj("str", NoEntries)
ListObj == Obj("list", NoEntries)
QspObjects ==
  {AbsentObj, NoneObj, StrObj, ListObj} \cup {Obj("dict", m) : m \in QMaps}

\* keys of the invocation event
EKeys == {"queryStringParameters", "path"}
Events ==
  {e \in [EKeys -> QspObjects] : e["path"] \in {AbsentObj, StrObj}}

\* header names; X-Alt is a name only a caller of the handler ever writes
HNames == {"Connection", "Keep-Alive", "X-Alt"}
NoHeaders == [h \in HNames |-> Absent]

Body == "Successful request to Lambda without web adapter (python)"
RootBody == "Successful request to EC2 (python)"

\* ------------------------------------------------------- dict operations
\* faulty variant of EventGet: event.setdefault(k, d), which stores d in the
\* event when k is missing
EventSetDefault(ev, k, d) ==
  [val |-> IF ev[k] = AbsentObj THEN d ELSE ev[k],
   obj |-> [ev EXCEPT ![k] = IF @ = AbsentObj THEN d ELSE @]]

\* line 2: dict.get(k, d) on the event: the value under k, or d; the event
\* itself is left as it is (val: the value returned, obj: the event afterwards)
EventGet(ev, k, d) ==
  [val |-> IF ev[k] = AbsentObj THEN d ELSE ev[k], obj |-> ev]

\* faulty variant of ResolveNone: the test for None left out
KeepNone(ec) == ec

\* lines 3-4: a null mapping is replaced by an empty one
ResolveNone(ec) == IF ec = NoneObj THEN EmptyDict ELSE ec

\* line 5: only a dict has the method get; on a str, a list, ... the
\* attribute lookup raises AttributeError
HasGet(ec) == ec.t = "dict"

\* faulty variant of DictGet: get(k) without the default
DictGetNoDefault(m, k, d) == IF m[k] = Absent THEN None ELSE m[k]

\* dict.get(k, d) on the query-parameter mapping
DictGet(m, k, d) == IF m[k] = Absent THEN d ELSE m[k]

\* line 5
ReadConnection(ec) == DictGet(ec.m, "connection", Str("true"))

\* faulty variant of ReadKeepAlive: the key of line 5 repeated
ReadKeepAliveWrongKey(ec) == DictGet(ec.m, "connection", Str("true"))

\* line 6
ReadKeepAlive(ec) == DictGet(ec.m, "keep-alive", Str("true"))

\* faulty variant of IsTrue: x.lower() == "true"
IsTrueIgnoringCase(x) == x \in {Str("true"), Str("TRUE")}

\* the comparison  x == "true"  of lines 9 and 11
IsTrue(x) == x = Str("true")

\* faulty variant of NewHeaders: one header dict kept for all invocations
\* (a module-level dict, or a mutable default argument)
SharedHeaders(hp) ==
  [id |-> 1, heap |-> IF hp = <<>> THEN <<NoHeaders>> ELSE hp]

\* line 8: headers = {} makes a new dict object (id: its reference)
NewHeaders(hp) == [id |-> Len(hp) + 1, heap |-> Append(hp, NoHeaders)]

\* dict.update({k: x}) on the header dict hd
DictUpdate(hd, k, x) == [hd EXCEPT ![k] = Str(x)]

\* faulty variant of AddConnection: the parameter's text is written as the
\* header value
EchoConnection(hd, connection) ==
  IF IsTrue(connection) THEN DictUpdate(hd, "Connection", connection.v) ELSE hd

\* lines 9-10
AddConnection(hd, connection) ==
  IF IsTrue(connection) THEN DictUpdate(hd, "Connection", "keep-alive") ELSE hd

\* lines 11-12
AddKeepAlive(hd, keepAlive) ==
  IF IsTrue(keepAlive) THEN DictUpdate(hd, "Keep-Alive", "timeout=72") ELSE hd

\* lines 14-18: the returned dict, with the header dict's contents copied
\* out of the heap (what a caller reads at the moment of the return)
Response(hp, id) == [statusCode |-> 200, headers |-> hp[id], body |-> Body]
NoResponse == [statusCode |-> 0, headers |-> NoHeaders, body |-> ""]

\* handler(event, context) run from its first line to its return or raise,
\* on the event contents ev and the heap hp
Handler(ev, hp) ==
  LET g == EventGet(ev, "queryStringParameters", EmptyDict)
      enableConnection == ResolveNone(g.val)
  IN  IF ~HasGet(enableConnection)
      THEN [outcome |-> "raise", response |-> NoResponse, id |-> 0,
            event |-> g.obj, heap |-> hp]
      ELSE LET connection == ReadConnection(enableConnection)
               keepAlive == ReadKeepAlive(enableConnection)
               a == NewHeaders(hp)
               h1 == [a.heap EXCEPT ![a.id] = AddConnection(@, connection)]
               h2 == [h1 EXCEPT ![a.id] = AddKeepAlive(@, keepAlive)]
           IN  [outcome |-> "return", response |-> Response(h2, a.id),
                id |-> a.id, event |-> g.obj, heap |-> h2]

\* ---------------------------------------------------------------- ec2.py
\* what a request to "/" carries
Requests ==
  [query : {"", "connection=false&keep-alive=false"},
   connection : {Absent, Str("close")},
   body : {"", "x"}]
NoRequest == [query |-> "", connection |-> None, body |-> ""]

\* faulty variant of Root: the request's Connection header is echoed
RootEcho(req) ==
  [status |-> 200, body |-> RootBody, mimetype |-> "text/plain",
   headers |-> [NoHeaders EXCEPT
                  !["Connection"] =
                      IF req.connection = Absent THEN Str("keep-alive")
                      ELSE req.connection,
                  !["Keep-Alive"] = Str("timeout=72")]]

\* root(): the Response of lines 7-9 (status: Flask's default for a Response);
\* root takes no parameter and reads nothing of the request req
Root(req) ==
  [status |-> 200, body |-> RootBody, mimetype |-> "text/plain",
   headers |-> [NoHeaders EXCEPT !["Connection"] = Str("keep-alive"),
                                 !["Keep-Alive"] = Str("timeout=72")]]
NoRootResponse ==
  [status |-> 0, body |-> "", mimetype |-> "", headers |-> NoHeaders]

\* ------------------------------------------------------------------ state
Procs == 1..NProc

\* events and requests of the invocations that run interleaved
ConcEvents ==
  {e \in Events :
     /\ e["path"] = AbsentObj
     /\ e["queryStringParameters"].m["other"] = Absent
     /\ \/ e["queryStringParameters"] \in {AbsentObj, NoneObj, StrObj}
        \/ /\ e["queryStringParameters"].t = "dict"
           /\ \A k \in {"connection", "keep-alive"} :
                e["queryStringParameters"].m[k] \in {Str("true"), Str("false")}}
ConcRequests == {r \in Requests : r.connection = Absent /\ r.body = ""}

\* the locals of one invocation that has not started
IdleFrame ==
  [pc |-> "idle", event |-> [k \in EKeys |-> AbsentObj],
   enableConnection |-> AbsentObj, connection |-> Absent, keepAlive |-> Absent,
   headers |-> 0, result |-> NoResponse,
   request |-> NoRequest, rootResult |-> NoRootResponse]

VARIABLES
  heap,          \* the header dicts created so far, by reference
  calls,         \* invocations and requests made one after another so far
  event,         \* the event object of the latest invocation, as it is now
  eventBefore,   \* its contents when the invocation began
  outcome,       \* "none", "return" or "raise": how the latest invocation ended
  response,      \* what the latest invocation returned, read at the return
  held,          \* references of the header dicts of the responses returned
  altered,       \* references of the header dicts a caller has written to
  request,       \* the latest request to "/"
  rootResponse,  \* what root() answered to it
  frames         \* the locals of each interleaved invocation

seqVars ==
  <<calls, event, eventBefore, outcome, response, held, altered, request,
    rootResponse>>
vars == <<heap, seqVars, frames>>

Init ==
  /\ heap = <<>>
  /\ calls = 0
  /\ event = [k \in EKeys |-> AbsentObj]
  /\ eventBefore = [k \in EKeys |-> AbsentObj]
  /\ outcome = "none"
  /\ response = NoResponse
  /\ held = <<>>
  /\ altered = {}
  /\ request = NoRequest
  /\ rootResponse = NoRootResponse
  /\ frames = [p \in Procs |-> IdleFrame]

\* ------------------------------------------- invocations one after another
\* the platform invokes handler(e, context) and the call runs to its end
Invoke(e) ==
  /\ calls < MaxCalls
  /\ LET r == Handler(e, heap)
     IN  /\ eventBefore' = e
         /\ event' = r.event
         /\ outcome' = r.outcome
         /\ response' = r.response
         /\ heap' = r.heap
         /\ held' = IF r.outcome = "return" THEN Append(held, r.id) ELSE held
  /\ calls' = calls + 1
  /\ UNCHANGED <<altered, request, rootResponse, frames>>

\* a caller writes an entry into the header dict of a response it was given
Alter(i) ==
  /\ i \in 1..Len(held)
  /\ held[i] \notin altered
  /\ heap' = [heap EXCEPT ![held[i]] = DictUpdate(@, "X-Alt", "1")]
  /\ altered' = altered \cup {held[i]}
  /\ UNCHANGED <<calls, event, eventBefore, outcome, response, held, request,
                 rootResponse, frames>>

\* Flask routes a request for "/" to root()
Request(r) ==
  /\ calls < MaxCalls
  /\ request' = r
  /\ rootResponse' = Root(r)
  /\ calls' = calls + 1
  /\ UNCHANGED <<heap, event, eventBefore, outcome, response, held, altered,
                 frames>>

Next ==
  \/ \E e \in Events : Invoke(e)
  \/ \E i \in 1..MaxCalls : Alter(i)
  \/ \E r \in Requests : Request(r)

Spec == Init /\ [][Next]_vars

\* ------------------------------------------------ interleaved invocations
\* the platform starts invocation p of handler on event e
Start(p, e) ==
  /\ frames[p].pc = "idle"
  /\ frames' = [frames EXCEPT ![p].pc = "l2", ![p].event = e]
  /\ UNCHANGED <<heap, seqVars>>

\* line 2
Resolve(p) ==
  /\ frames[p].pc = "l2"
  /\ LET g == EventGet(frames[p].event, "queryStringParameters", EmptyDict)
     IN  frames' = [frames EXCEPT ![p].pc = "l3", ![p].event = g.obj,
                                  ![p].enableConnection = g.val]
  /\ UNCHANGED <<heap, seqVars>>

\* lines 3-4
NoneCheck(p) ==
  /\ frames[p].pc = "l3"
  /\ frames' = [frames EXCEPT ![p].pc = "l5",
                              ![p].enableConnection = ResolveNone(@)]
  /\ UNCHANGED <<heap, seqVars>>

\* line 5
GetConnection(p) ==
  /\ frames[p].pc = "l5"
  /\ frames' =
       IF HasGet(frames[p].enableConnection)
       THEN [frames EXCEPT ![p].pc = "l6",
               ![p].connection = ReadConnection(frames[p].enableConnection)]
       ELSE [frames EXCEPT ![p].pc = "raised"]
  /\ UNCHANGED <<heap, seqVars>>

\* line 6
GetKeepAlive(p) ==
  /\ frames[p].pc = "l6"
  /\ frames' = [frames EXCEPT ![p].pc = "l8",
                  ![p].keepAlive = ReadKeepAlive(frames[p].enableConnection)]
  /\ UNCHANGED <<heap, seqVars>>

\* line 8
MakeHeaders(p) ==
  /\ frames[p].pc = "l8"
  /\ LET a == NewHeaders(heap)
     IN  /\ heap' = a.heap
         /\ frames' = [frames EXCEPT ![p].pc = "l9", ![p].headers = a.id]
  /\ UNCHANGED seqVars

\* lines 9-10
UpdateConnection(p) ==
  /\ frames[p].pc = "l9"
  /\ heap' = [heap EXCEPT ![frames[p].headers] =
                             AddConnection(@, frames[p].connection)]
  /\ frames' = [frames EXCEPT ![p].pc = "l11"]
  /\ UNCHANGED seqVars

\* lines 11-12
UpdateKeepAlive(p) ==
  /\ frames[p].pc = "l11"
  /\ heap' = [heap EXCEPT ![frames[p].headers] =
                             AddKeepAlive(@, frames[p].keepAlive)]
  /\ frames' = [frames EXCEPT ![p].pc = "l14"]
  /\ UNCHANGED seqVars

\* lines 14-18
Return(p) ==
  /\ frames[p].pc = "l14"
  /\ frames' = [frames EXCEPT ![p].pc = "done",
                              ![p].result = Response(heap, frames[p].headers)]
  /\ UNCHANGED <<heap, seqVars>>

\* Flask starts serving request r for "/" as p
StartRoot(p, r) ==
  /\ frames[p].pc = "idle"
  /\ frames' = [frames EXCEPT ![p].pc = "r7", ![p].request = r]
  /\ UNCHANGED <<heap, seqVars>>

\* ec2.py lines 7-9
RootReturn(p) ==
  /\ frames[p].pc = "r7"
  /\ frames' = [frames EXCEPT ![p].pc = "rdone",
                              ![p].rootResult = Root(frames[p].request)]
  /\ UNCHANGED <<heap, seqVars>>

ConcNext ==
  \/ \E p \in Procs, e \in ConcEvents : Start(p, e)
  \/ \E p \in Procs : Resolve(p)
  \/ \E p \in Procs : NoneCheck(p)
  \/ \E p \in Procs : GetConnection(p)
  \/ \E p \in Procs : GetKeepAlive(p)
  \/ \E p \in Procs : MakeHeaders(p)
  \/ \E p \in Procs : UpdateConnection(p)
  \/ \E p \in Procs : UpdateKeepAlive(p)
  \/ \E p \in Procs : Return(p)
  \/ \E p \in Procs, r \in ConcRequests : StartRoot(p, r)
  \/ \E p \in Procs : RootReturn(p)

ConcSpec == Init /\ [][ConcNext]_vars

\* ----------------------------------------------------------------- claims
\* the query-parameter object of event e
Qsp(e) == e["queryStringParameters"]
\* the event's queryStringParameters is absent, null or a mapping
QspIsMappingOrMissing(e) == Qsp(e).t \in {"absent", "none", "dict"}
\* what the mapping holds under k (Absent when there is no mapping)
Raw(e, k) == IF Qsp(e).t = "dict" THEN Qsp(e).m[k] ELSE Absent
\* the resolved value of parameter k: the mapping's value, "true" if missing
Resolved(e, k) == IF Raw(e, k) = Absent THEN Str("true") ELSE Raw(e, k)
\* the header dict the contract prescribes for event e
Prescribed(e) ==
  [h \in HNames |->
     CASE h = "Connection" ->
            IF Resolved(e, "connection") = Str("true")
            THEN Str("keep-alive") ELSE Absent
       [] h = "Keep-Alive" ->
            IF Resolved(e, "keep-alive") = Str("true")
            THEN Str("timeout=72") ELSE Absent
       [] OTHER -> Absent]
BothHeaders ==
  [h \in HNames |->
     CASE h = "Connection" -> Str("keep-alive")
       [] h = "Keep-Alive" -> Str("timeout=72")
       [] OTHER -> Absent]
\* the one answer of the static handler
StaticResponse ==
  [status |-> 200, body |-> "Successful request to EC2 (python)",
   mimetype |-> "text/plain", headers |-> BothHeaders]

\* C1: when queryStringParameters is absent, null or a mapping, the handler
\* returns, and its headers hold Connection: keep-alive exactly when the
\* resolved connection value is the string "true"; otherwise Connection is
\* absent.
C1_ConnectionIffTrue ==
  (outcome # "none" /\ QspIsMappingOrMissing(eventBefore)) =>
     /\ outcome = "return"
     /\ response.headers["Connection"] =
          IF Resolved(eventBefore, "connection") = Str("true")
          THEN Str("keep-alive") ELSE Absent

\* C1 witness: connection="TRUE" was given and Connection is absent
C1_Witness ==
  /\ outcome = "return"
  /\ Raw(eventBefore, "connection") = Str("TRUE")
  /\ response.headers["Connection"] = Absent

\* C2: when queryStringParameters is absent, null or a mapping, the headers
\* hold Keep-Alive: timeout=72 exactly when the resolved keep-alive value is
\* the string "true", whatever connection is; connection="false" with
\* keep-alive="true" gives exactly {Keep-Alive: timeout=72}.
C2_KeepAliveIffTrue ==
  (outcome # "none" /\ QspIsMappingOrMissing(eventBefore)) =>
     /\ outcome = "return"
     /\ response.headers["Keep-Alive"] =
          IF Resolved(eventBefore, "keep-alive") = Str("true")
          THEN Str("timeout=72") ELSE Absent
     /\ (/\ Raw(eventBefore, "connection") = Str("false")
         /\ Raw(eventBefore, "keep-alive") = Str("true"))
        => response.headers =
             [NoHeaders EXCEPT !["Keep-Alive"] = Str("timeout=72")]

\* C2 witness: the example connection="false", keep-alive="true" has run
C2_Witness ==
  /\ outcome = "return"
  /\ Raw(eventBefore, "connection") = Str("false")
  /\ Raw(eventBefore, "keep-alive") = Str("true")
  /\ response.headers["Keep-Alive"] = Str("timeout=72")
  /\ response.headers["Connection"] = Absent

\* the event names neither parameter
MissingParameters(e) ==
  /\ QspIsMappingOrMissing(e)
  /\ Raw(e, "connection") = Absent
  /\ Raw(e, "keep-alive") = Absent

\* C3: when the parameters are missing (no queryStringParameters, null, an
\* empty mapping, or a mapping without connection and keep-alive) the
\* headers are exactly {Connection: keep-alive, Keep-Alive: timeout=72}.
C3_MissingGivesBoth ==
  (outcome # "none" /\ MissingParameters(eventBefore)) =>
     /\ outcome = "return"
     /\ response.headers = BothHeaders

\* C3 witness: a null queryStringParameters was answered with both headers
C3_Witness ==
  /\ outcome = "return"
  /\ Qsp(eventBefore) = NoneObj
  /\ response.headers = BothHeaders

\* C4: the handler has no error path: every invocation, also one whose
\* queryStringParameters is malformed, returns a response with statusCode 200
\* and never raises.
C4_NoErrorPath ==
  outcome # "none" => (outcome = "return" /\ response.statusCode = 200)

\* C5 as stated: a parameter that is missing or malformed (present, neither
\* "true" nor "false") yields its header, as a missing key does.
C5_MalformedLikeMissing ==
  (outcome # "none" /\ QspIsMappingOrMissing(eventBefore)) =>
     /\ Raw(eventBefore, "connection") \notin {Str("true"), Str("false")}
          => response.headers["Connection"] = Str("keep-alive")
     /\ Raw(eventBefore, "keep-alive") \notin {Str("true"), Str("false")}
          => response.headers["Keep-Alive"] = Str("timeout=72")

\* C5 amended: only a missing key degrades to the default-enabled behaviour;
\* a value that is present and is not "true" (the empty string, null,
\* "TRUE") suppresses the header like "false"; both cases return status 200.
C5_MissingDefaultsMalformedSuppresses ==
  (outcome # "none" /\ QspIsMappingOrMissing(eventBefore)) =>
     /\ outcome = "return"
     /\ response.statusCode = 200
     /\ Raw(eventBefore, "connection") = Absent
          => response.headers["Connection"] = Str("keep-alive")
     /\ Raw(eventBefore, "connection") \notin {Absent, Str("true")}
          => response.headers["Connection"] = Absent
     /\ Raw(eventBefore, "keep-alive") = Absent
          => response.headers["Keep-Alive"] = Str("timeout=72")
     /\ Raw(eventBefore, "keep-alive") \notin {Absent, Str("true")}
          => response.headers["Keep-Alive"] = Absent

\* C5 witness: connection="" suppressed Connection while the missing
\* keep-alive key gave Keep-Alive
C5_Witness ==
  /\ outcome = "return"
  /\ Raw(eventBefore, "connection") = Str("")
  /\ Raw(eventBefore, "keep-alive") = Absent
  /\ response.headers["Connection"] = Absent
  /\ response.headers["Keep-Alive"] = Str("timeout=72")

\* C6: every returned response has statusCode 200, the fixed body, and
\* headers that are a subset of {Connection: keep-alive, Keep-Alive:
\* timeout=72} decided by the two parameters alone: no other query parameter
\* or event field changes them, and they are empty when both are non-"true".
C6_ResponseShape ==
  outcome = "return" =>
     /\ response.statusCode = 200
     /\ response.body =
          "Successful request to Lambda without web adapter (python)"
     /\ \A h \in HNames : response.headers[h] \in {Absent, BothHeaders[h]}
     /\ response.headers = Prescribed(eventBefore)
     /\ (/\ Resolved(eventBefore, "connection") # Str("true")
         /\ Resolved(eventBefore, "keep-alive") # Str("true"))
        => response.headers = NoHeaders

\* C6 witness: an event with another query parameter and another field,
\* both parameters non-"true", was answered with no header
C6_Witness ==
  /\ outcome = "return"
  /\ Raw(eventBefore, "other") = Str("x")
  /\ eventBefore["path"] = StrObj
  /\ Raw(eventBefore, "connection") = None
  /\ Raw(eventBefore, "keep-alive") = Str("false")
  /\ response.headers = NoHeaders

\* C7: root() answers every request with status 200, the fixed body, MIME
\* type text/plain and both headers, whatever the request holds and whatever
\* was served before.
C7_StaticAnswer ==
  rootResponse # NoRootResponse => rootResponse = StaticResponse

\* C7 witness: after an earlier request, a request with a query string, a
\* Connection: close header and a body was answered
C7_Witness ==
  /\ calls = MaxCalls
  /\ outcome = "none"
  /\ request.query # ""
  /\ request.connection = Str("close")
  /\ request.body = "x"
  /\ rootResponse.status = 200

\* handler invoked on e before any other invocation
First(e) == Handler(e, <<>>)

\* C8: after any sequence of earlier invocations, the handler ends on event
\* e as it does when e is the first event it is ever given: same outcome,
\* same statusCode, headers and body.
C8_HistoryIndependent ==
  outcome # "none" =>
     /\ outcome = First(eventBefore).outcome
     /\ response = First(eventBefore).response

\* C8 witness: a second invocation returned after a first one that had
\* returned other headers
C8_Witness ==
  /\ calls = MaxCalls
  /\ outcome = "return"
  /\ Len(held) >= 2
  /\ heap[held[1]] # response.headers
  /\ 1 \notin altered

\* C9: with the steps of several invocations interleaved in any order, each
\* invocation ends as it does when run alone on its own event, and each
\* request to root() gets the static answer.
C9_Independent ==
  \A p \in Procs :
     /\ frames[p].pc = "done" =>
          /\ First(frames[p].event).outcome = "return"
          /\ frames[p].result = First(frames[p].event).response
     /\ frames[p].pc = "raised" => First(frames[p].event).outcome = "raise"
     /\ frames[p].pc = "rdone" => frames[p].rootResult = StaticResponse

\* C9 witness: invocation 2 made its header dict first and is still adding
\* to it when invocation 1, started on other parameters, has returned
C9_Witness ==
  /\ frames[1].pc = "done"
  /\ frames[1].headers = 2
  /\ frames[2].pc = "l11"
  /\ frames[2].headers = 1
  /\ heap[1] # NoHeaders
  /\ frames[1].result.headers = NoHeaders

\* C10: the handler leaves the event as it was (an absent or null
\* queryStringParameters stays absent or null), and each response's header
\* dict is an object of its own: writing to the headers of one response does
\* not show in any other response.
C10_FrameAndFresh ==
  /\ outcome # "none" => event = eventBefore
  /\ \A i, j \in 1..Len(held) : i # j => held[i] # held[j]
  /\ outcome = "return" =>
       /\ response.headers["X-Alt"] = Absent
       /\ held[Len(held)] \notin altered
            => heap[held[Len(held)]] = response.headers

\* C10 witness: the headers of the first response were written to, and a
\* later invocation without queryStringParameters has returned
C10_Witness ==
  /\ outcome = "return"
  /\ held = <<1, 2>>
  /\ altered = {1}
  /\ Qsp(eventBefore) = AbsentObj
  /\ Qsp(event) = AbsentObj

====
